---- MODULE Spec2Model ----
(***************************************************************************)
(* Model of the model-serving and lifecycle subsystem of the FastAPI ML    *)
(* service: the process-wide MLService singleton (version, status,         *)
(* last_updated), its predict / batch_predict / update_model / get_status  *)
(* methods, and the four endpoints of the ML router that call them behind  *)
(* the get_current_active_user dependency.                                 *)
(*                                                                         *)
(* Endpoints are "async def" handlers on one event loop: a handler runs    *)
(* without interruption between two awaits.  The only await in the router  *)
(* is "await model_file.read()" of the update endpoint, so every endpoint  *)
(* but update runs in one piece.  The update handler runs up to the read,  *)
(* and after it calls the synchronous update_model, whose assignments are  *)
(* taken one step at a time while the call keeps the event loop.           *)
(***************************************************************************)
EXTENDS Integers, Sequences, FiniteSets

\* ------------------------------------------------------------------ bounds
\* Largest number of Prediction rows the table may hold; a batch is only
\* submitted while its inputs still fit.
MaxDb == 3
\* Largest number of update requests suspended in "await model_file.read()".
MaxInflight == 2
\* Largest reading of the clock: update_model is not called beyond it.
MaxClock == 2

\* ------------------------------------------------------ Python primitives
\* Optional[int]: None is the empty sequence, a value k is <<k>>.
None == <<>>

Some(k) == <<k>>

Min(a, b) == IF a < b THEN a ELSE b

Digits == <<"0", "1", "2", "3", "4", "5", "6", "7", "8", "9">>

IsDigit(ch) == \E d \in 1..10 : Digits[d] = ch

DigitVal(ch) == (CHOOSE d \in 1..10 : Digits[d] = ch) - 1

RECURSIVE Pow10(_)
Pow10(n) == IF n = 0 THEN 1 ELSE 10 * Pow10(n - 1)

\* The number a sequence of digit characters denotes (0 for no digits).
RECURSIVE DigitsToNat(_)
DigitsToNat(s) ==
    IF s = <<>> THEN 0
    ELSE 10 * DigitsToNat(SubSeq(s, 1, Len(s) - 1)) + DigitVal(s[Len(s)])

\* The decimal digits of a natural number, as characters.
RECURSIVE NatToStr(_)
NatToStr(n) ==
    IF n < 10 THEN <<Digits[n + 1]>>
    ELSE Append(NatToStr(n \div 10), Digits[(n % 10) + 1])

\* float(s) for a string s, given as its sequence of characters, over the
\* alphabet of digits and ".": Python accepts it when it has at most one
\* "." and at least one digit, and raises ValueError otherwise.  The value
\* is the exact decimal num / 10^scale.
PyFloat(s) ==
    LET dots == {i \in 1..Len(s) : s[i] = "."}
        wellFormed == /\ \A i \in 1..Len(s) : IsDigit(s[i]) \/ s[i] = "."
                      /\ Cardinality(dots) <= 1
                      /\ \E i \in 1..Len(s) : IsDigit(s[i])
        dot == IF dots = {} THEN Len(s) + 1 ELSE CHOOSE i \in dots : TRUE
        whole == SubSeq(s, 1, dot - 1)
        frac == SubSeq(s, dot + 1, Len(s))
    IN  IF wellFormed
        THEN [ok |-> TRUE, num |-> DigitsToNat(whole \o frac), scale |-> Len(frac)]
        ELSE [ok |-> FALSE, num |-> 0, scale |-> 0]

\* x + 0.1 on a decimal value.
AddTenth(v) ==
    IF v.scale = 0 THEN [num |-> v.num * 10 + 1, scale |-> 1]
    ELSE [num |-> v.num + Pow10(v.scale - 1), scale |-> v.scale]

\* f"{x:.1f}": x rounded to one decimal (ties to even), as characters.
\* Exact for values with at most one fractional digit, the only ones the
\* service produces.
FormatF1(v) ==
    LET unit == Pow10(v.scale - 1)
        q == v.num \div unit
        r == v.num % unit
        tenths == IF v.scale = 0 THEN v.num * 10
                  ELSE IF v.scale = 1 THEN v.num
                  ELSE IF 2 * r > unit \/ (2 * r = unit /\ q % 2 = 1) THEN q + 1
                  ELSE q
    IN  NatToStr(tenths \div 10) \o <<".">> \o <<Digits[(tenths % 10) + 1]>>

\* range(start, stop, step): ValueError for step 0, else the indices.
RECURSIVE RangeFrom(_, _, _)
RangeFrom(start, stop, step) ==
    IF (step > 0 /\ start >= stop) \/ (step < 0 /\ start <= stop) THEN <<>>
    ELSE <<start>> \o RangeFrom(start + step, stop, step)

PyRange(start, stop, step) ==
    IF step = 0 THEN [ok |-> FALSE, seq |-> <<>>]
    ELSE [ok |-> TRUE, seq |-> RangeFrom(start, stop, step)]

\* seq[i : j] for 0 <= i <= j.
Slice(seq, i, j) == SubSeq(seq, i + 1, Min(j, Len(seq)))

\* batch_size ignored: the whole input sequence is always one chunk.
OrElse_ignored(a, b) == b

\* "a or b" on an Optional[int] a: b when a is None or 0.
OrElse(a, b) == IF a = None \/ a[1] = 0 THEN b ELSE a[1]

\* ------------------------------------------------------------------ state
VARIABLES
    version,       \* MLService.version, a string as its characters
    status,        \* MLService.status
    last_updated,  \* MLService.last_updated, a reading of the clock
    clock,         \* the last value datetime.utcnow() returned
    db,            \* the committed rows of the Prediction table, in id order
    inflight,      \* callers of update requests awaiting model_file.read()
    resp,          \* the last response sent
    trace,         \* what the last service call did, step by step
    pre,           \* ModelState and table rows when the last request was handled
    seen,          \* the last status response, None since the last update_model call
    running,       \* the update_model calls entered and not yet returned
    edge           \* ModelState before and after the last update_model call
                   \* entered, and how the last call to return ended

vars == <<version, status, last_updated, clock, db, inflight, resp, trace, pre, seen,
          running, edge>>

InitialVersion == <<"1", ".", "0", ".", "0">>

ModelName == "mock_model"

Metrics == [accuracy |-> "0.95", latency |-> "0.1"]

ModelState == [version |-> version, status |-> status, last_updated |-> last_updated]

\* --------------------------------------------------------- input domains
\* A ModelInput with data d; parameters is left at its default, None.
ModelInput(d) == [data |-> d, parameters |-> None]

\* The data a single prediction is asked for.
InputVals == 1..MaxDb

\* The input sequences of batch requests: n pairwise distinct inputs, the
\* j-th carrying data j, for every n up to max.
InputSeqs(max) == {[j \in 1..n |-> ModelInput(j)] : n \in 0..max}

\* The two draws of np.random.rand() one predict call makes, as a pair
\* <<prediction draw, confidence draw>> of abstract samples of [0, 1).
Samples == <<<<0, 1>>, <<1, 0>>>>

\* The draws of a batch of n predictions: consecutive predictions draw
\* different samples, starting from either one.
SampleSeqs(n) ==
    {[j \in 1..n |-> Samples[((j + k) % 2) + 1]] : k \in 0..1}

\* The batch_size values a request may carry: absent, or an integer.
BatchSizes == {None} \cup {Some(k) : k \in -1..MaxDb}

\* ------------------------------------------------------- users and tokens
\* The rows of the User table by primary key: 1 (admin) is an active
\* superuser, 2 (alice) an active plain user, 3 (bob) an inactive superuser.
UserTable ==
    <<[is_active |-> TRUE, is_superuser |-> TRUE],
      [is_active |-> TRUE, is_superuser |-> FALSE],
      [is_active |-> FALSE, is_superuser |-> TRUE]>>

\* The bearer token each caller sends: whether jwt.decode accepts its
\* signature, and its "sub" entry (absent, or a string of characters).
\* mallory's token is not validly signed, carol's carries no sub, dave's
\* names a key with no row, and trent's sub is not a number.
Tokens ==
    [admin   |-> [signed |-> TRUE, sub |-> Some(<<"1">>)],
     alice   |-> [signed |-> TRUE, sub |-> Some(<<"2">>)],
     bob     |-> [signed |-> TRUE, sub |-> Some(<<"3">>)],
     mallory |-> [signed |-> FALSE, sub |-> Some(<<"1">>)],
     carol   |-> [signed |-> TRUE, sub |-> None],
     dave    |-> [signed |-> TRUE, sub |-> Some(<<"9">>)],
     trent   |-> [signed |-> TRUE, sub |-> Some(<<"a", "b", "c">>)]]

\* Who sends requests.
Callers == DOMAIN Tokens

\* Characters are written as themselves when they are printable ASCII and
\* by their code point, "U+0661", otherwise.
\* The white space int() skips around a number: the ASCII characters space,
\* \t, \n, \v, \f, \r and every non-ASCII character str.isspace() accepts.
SpaceChars ==
    {" ", "U+0009", "U+000A", "U+000B", "U+000C", "U+000D", "U+0085",
     "U+00A0", "U+1680", "U+2000", "U+2001", "U+2002", "U+2003", "U+2004",
     "U+2005", "U+2006", "U+2007", "U+2008", "U+2009", "U+200A", "U+2028",
     "U+2029", "U+202F", "U+205F", "U+3000"}

\* The non-ASCII characters of Unicode category Nd (Unicode 14.0, the
\* table of Python 3.11), one row per script, the digits 0 to 9 in order.
UnicodeDigitRows ==
    <<<<"U+0660", "U+0661", "U+0662", "U+0663", "U+0664", "U+0665", "U+0666", "U+0667", "U+0668", "U+0669">>,
      <<"U+06F0", "U+06F1", "U+06F2", "U+06F3", "U+06F4", "U+06F5", "U+06F6", "U+06F7", "U+06F8", "U+06F9">>,
      <<"U+07C0", "U+07C1", "U+07C2", "U+07C3", "U+07C4", "U+07C5", "U+07C6", "U+07C7", "U+07C8", "U+07C9">>,
      <<"U+0966", "U+0967", "U+0968", "U+0969", "U+096A", "U+096B", "U+096C", "U+096D", "U+096E", "U+096F">>,
      <<"U+09E6", "U+09E7", "U+09E8", "U+09E9", "U+09EA", "U+09EB", "U+09EC", "U+09ED", "U+09EE", "U+09EF">>,
      <<"U+0A66", "U+0A67", "U+0A68", "U+0A69", "U+0A6A", "U+0A6B", "U+0A6C", "U+0A6D", "U+0A6E", "U+0A6F">>,
      <<"U+0AE6", "U+0AE7", "U+0AE8", "U+0AE9", "U+0AEA", "U+0AEB", "U+0AEC", "U+0AED", "U+0AEE", "U+0AEF">>,
      <<"U+0B66", "U+0B67", "U+0B68", "U+0B69", "U+0B6A", "U+0B6B", "U+0B6C", "U+0B6D", "U+0B6E", "U+0B6F">>,
      <<"U+0BE6", "U+0BE7", "U+0BE8", "U+0BE9", "U+0BEA", "U+0BEB", "U+0BEC", "U+0BED", "U+0BEE", "U+0BEF">>,
      <<"U+0C66", "U+0C67", "U+0C68", "U+0C69", "U+0C6A", "U+0C6B", "U+0C6C", "U+0C6D", "U+0C6E", "U+0C6F">>,
      <<"U+0CE6", "U+0CE7", "U+0CE8", "U+0CE9", "U+0CEA", "U+0CEB", "U+0CEC", "U+0CED", "U+0CEE", "U+0CEF">>,
      <<"U+0D66", "U+0D67", "U+0D68", "U+0D69", "U+0D6A", "U+0D6B", "U+0D6C", "U+0D6D", "U+0D6E", "U+0D6F">>,
      <<"U+0DE6", "U+0DE7", "U+0DE8", "U+0DE9", "U+0DEA", "U+0DEB", "U+0DEC", "U+0DED", "U+0DEE", "U+0DEF">>,
      <<"U+0E50", "U+0E51", "U+0E52", "U+0E53", "U+0E54", "U+0E55", "U+0E56", "U+0E57", "U+0E58", "U+0E59">>,
      <<"U+0ED0", "U+0ED1", "U+0ED2", "U+0ED3", "U+0ED4", "U+0ED5", "U+0ED6", "U+0ED7", "U+0ED8", "U+0ED9">>,
      <<"U+0F20", "U+0F21", "U+0F22", "U+0F23", "U+0F24", "U+0F25", "U+0F26", "U+0F27", "U+0F28", "U+0F29">>,
      <<"U+1040", "U+1041", "U+1042", "U+1043", "U+1044", "U+1045", "U+1046", "U+1047", "U+1048", "U+1049">>,
      <<"U+1090", "U+1091", "U+1092", "U+1093", "U+1094", "U+1095", "U+1096", "U+1097", "U+1098", "U+1099">>,
      <<"U+17E0", "U+17E1", "U+17E2", "U+17E3", "U+17E4", "U+17E5", "U+17E6", "U+17E7", "U+17E8", "U+17E9">>,
      <<"U+1810", "U+1811", "U+1812", "U+1813", "U+1814", "U+1815", "U+1816", "U+1817", "U+1818", "U+1819">>,
      <<"U+1946", "U+1947", "U+1948", "U+1949", "U+194A", "U+194B", "U+194C", "U+194D", "U+194E", "U+194F">>,
      <<"U+19D0", "U+19D1", "U+19D2", "U+19D3", "U+19D4", "U+19D5", "U+19D6", "U+19D7", "U+19D8", "U+19D9">>,
      <<"U+1A80", "U+1A81", "U+1A82", "U+1A83", "U+1A84", "U+1A85", "U+1A86", "U+1A87", "U+1A88", "U+1A89">>,
      <<"U+1A90", "U+1A91", "U+1A92", "U+1A93", "U+1A94", "U+1A95", "U+1A96", "U+1A97", "U+1A98", "U+1A99">>,
      <<"U+1B50", "U+1B51", "U+1B52", "U+1B53", "U+1B54", "U+1B55", "U+1B56", "U+1B57", "U+1B58", "U+1B59">>,
      <<"U+1BB0", "U+1BB1", "U+1BB2", "U+1BB3", "U+1BB4", "U+1BB5", "U+1BB6", "U+1BB7", "U+1BB8", "U+1BB9">>,
      <<"U+1C40", "U+1C41", "U+1C42", "U+1C43", "U+1C44", "U+1C45", "U+1C46", "U+1C47", "U+1C48", "U+1C49">>,
      <<"U+1C50", "U+1C51", "U+1C52", "U+1C53", "U+1C54", "U+1C55", "U+1C56", "U+1C57", "U+1C58", "U+1C59">>,
      <<"U+A620", "U+A621", "U+A622", "U+A623", "U+A624", "U+A625", "U+A626", "U+A627", "U+A628", "U+A629">>,
      <<"U+A8D0", "U+A8D1", "U+A8D2", "U+A8D3", "U+A8D4", "U+A8D5", "U+A8D6", "U+A8D7", "U+A8D8", "U+A8D9">>,
      <<"U+A900", "U+A901", "U+A902", "U+A903", "U+A904", "U+A905", "U+A906", "U+A907", "U+A908", "U+A909">>,
      <<"U+A9D0", "U+A9D1", "U+A9D2", "U+A9D3", "U+A9D4", "U+A9D5", "U+A9D6", "U+A9D7", "U+A9D8", "U+A9D9">>,
      <<"U+A9F0", "U+A9F1", "U+A9F2", "U+A9F3", "U+A9F4", "U+A9F5", "U+A9F6", "U+A9F7", "U+A9F8", "U+A9F9">>,
      <<"U+AA50", "U+AA51", "U+AA52", "U+AA53", "U+AA54", "U+AA55", "U+AA56", "U+AA57", "U+AA58", "U+AA59">>,
      <<"U+ABF0", "U+ABF1", "U+ABF2", "U+ABF3", "U+ABF4", "U+ABF5", "U+ABF6", "U+ABF7", "U+ABF8", "U+ABF9">>,
      <<"U+FF10", "U+FF11", "U+FF12", "U+FF13", "U+FF14", "U+FF15", "U+FF16", "U+FF17", "U+FF18", "U+FF19">>,
      <<"U+104A0", "U+104A1", "U+104A2", "U+104A3", "U+104A4", "U+104A5", "U+104A6", "U+104A7", "U+104A8", "U+104A9">>,
      <<"U+10D30", "U+10D31", "U+10D32", "U+10D33", "U+10D34", "U+10D35", "U+10D36", "U+10D37", "U+10D38", "U+10D39">>,
      <<"U+11066", "U+11067", "U+11068", "U+11069", "U+1106A", "U+1106B", "U+1106C", "U+1106D", "U+1106E", "U+1106F">>,
      <<"U+110F0", "U+110F1", "U+110F2", "U+110F3", "U+110F4", "U+110F5", "U+110F6", "U+110F7", "U+110F8", "U+110F9">>,
      <<"U+11136", "U+11137", "U+11138", "U+11139", "U+1113A", "U+1113B", "U+1113C", "U+1113D", "U+1113E", "U+1113F">>,
      <<"U+111D0", "U+111D1", "U+111D2", "U+111D3", "U+111D4", "U+111D5", "U+111D6", "U+111D7", "U+111D8", "U+111D9">>,
      <<"U+112F0", "U+112F1", "U+112F2", "U+112F3", "U+112F4", "U+112F5", "U+112F6", "U+112F7", "U+112F8", "U+112F9">>,
      <<"U+11450", "U+11451", "U+11452", "U+11453", "U+11454", "U+11455", "U+11456", "U+11457", "U+11458", "U+11459">>,
      <<"U+114D0", "U+114D1", "U+114D2", "U+114D3", "U+114D4", "U+114D5", "U+114D6", "U+114D7", "U+114D8", "U+114D9">>,
      <<"U+11650", "U+11651", "U+11652", "U+11653", "U+11654", "U+11655", "U+11656", "U+11657", "U+11658", "U+11659">>,
      <<"U+116C0", "U+116C1", "U+116C2", "U+116C3", "U+116C4", "U+116C5", "U+116C6", "U+116C7", "U+116C8", "U+116C9">>,
      <<"U+11730", "U+11731", "U+11732", "U+11733", "U+11734", "U+11735", "U+11736", "U+11737", "U+11738", "U+11739">>,
      <<"U+118E0", "U+118E1", "U+118E2", "U+118E3", "U+118E4", "U+118E5", "U+118E6", "U+118E7", "U+118E8", "U+118E9">>,
      <<"U+11950", "U+11951", "U+11952", "U+11953", "U+11954", "U+11955", "U+11956", "U+11957", "U+11958", "U+11959">>,
      <<"U+11C50", "U+11C51", "U+11C52", "U+11C53", "U+11C54", "U+11C55", "U+11C56", "U+11C57", "U+11C58", "U+11C59">>,
      <<"U+11D50", "U+11D51", "U+11D52", "U+11D53", "U+11D54", "U+11D55", "U+11D56", "U+11D57", "U+11D58", "U+11D59">>,
      <<"U+11DA0", "U+11DA1", "U+11DA2", "U+11DA3", "U+11DA4", "U+11DA5", "U+11DA6", "U+11DA7", "U+11DA8", "U+11DA9">>,
      <<"U+16A60", "U+16A61", "U+16A62", "U+16A63", "U+16A64", "U+16A65", "U+16A66", "U+16A67", "U+16A68", "U+16A69">>,
      <<"U+16AC0", "U+16AC1", "U+16AC2", "U+16AC3", "U+16AC4", "U+16AC5", "U+16AC6", "U+16AC7", "U+16AC8", "U+16AC9">>,
      <<"U+16B50", "U+16B51", "U+16B52", "U+16B53", "U+16B54", "U+16B55", "U+16B56", "U+16B57", "U+16B58", "U+16B59">>,
      <<"U+1D7CE", "U+1D7CF", "U+1D7D0", "U+1D7D1", "U+1D7D2", "U+1D7D3", "U+1D7D4", "U+1D7D5", "U+1D7D6", "U+1D7D7">>,
      <<"U+1D7D8", "U+1D7D9", "U+1D7DA", "U+1D7DB", "U+1D7DC", "U+1D7DD", "U+1D7DE", "U+1D7DF", "U+1D7E0", "U+1D7E1">>,
      <<"U+1D7E2", "U+1D7E3", "U+1D7E4", "U+1D7E5", "U+1D7E6", "U+1D7E7", "U+1D7E8", "U+1D7E9", "U+1D7EA", "U+1D7EB">>,
      <<"U+1D7EC", "U+1D7ED", "U+1D7EE", "U+1D7EF", "U+1D7F0", "U+1D7F1", "U+1D7F2", "U+1D7F3", "U+1D7F4", "U+1D7F5">>,
      <<"U+1D7F6", "U+1D7F7", "U+1D7F8", "U+1D7F9", "U+1D7FA", "U+1D7FB", "U+1D7FC", "U+1D7FD", "U+1D7FE", "U+1D7FF">>,
      <<"U+1E140", "U+1E141", "U+1E142", "U+1E143", "U+1E144", "U+1E145", "U+1E146", "U+1E147", "U+1E148", "U+1E149">>,
      <<"U+1E2F0", "U+1E2F1", "U+1E2F2", "U+1E2F3", "U+1E2F4", "U+1E2F5", "U+1E2F6", "U+1E2F7", "U+1E2F8", "U+1E2F9">>,
      <<"U+1E950", "U+1E951", "U+1E952", "U+1E953", "U+1E954", "U+1E955", "U+1E956", "U+1E957", "U+1E958", "U+1E959">>,
      <<"U+1FBF0", "U+1FBF1", "U+1FBF2", "U+1FBF3", "U+1FBF4", "U+1FBF5", "U+1FBF6", "U+1FBF7", "U+1FBF8", "U+1FBF9">>>>

UnicodeDigits ==
    {UnicodeDigitRows[r][d] : r \in DOMAIN UnicodeDigitRows, d \in 1..10}

\* A character int() reads as a decimal digit.
IsDecimal(ch) == IsDigit(ch) \/ ch \in UnicodeDigits

\* The ASCII digit of the same value.
AsciiDigit(ch) ==
    IF IsDigit(ch) THEN ch
    ELSE Digits[CHOOSE d \in 1..10 :
                    \E r \in DOMAIN UnicodeDigitRows : UnicodeDigitRows[r][d] = ch]

RECURSIVE LStrip(_)
LStrip(s) == IF s # <<>> /\ Head(s) \in SpaceChars THEN LStrip(Tail(s)) ELSE s

RECURSIVE RStrip(_)
RStrip(s) ==
    IF s # <<>> /\ s[Len(s)] \in SpaceChars THEN RStrip(SubSeq(s, 1, Len(s) - 1)) ELSE s

\* A digit string without its leading zeros ("0" for zero).
RECURSIVE StripZeros(_)
StripZeros(s) == IF Len(s) > 1 /\ Head(s) = "0" THEN StripZeros(Tail(s)) ELSE s

\* sys.get_int_max_str_digits(): int() refuses a string with more digits.
MaxStrDigits == 4300

\* int(s) for a string s, given as its sequence of characters: white space
\* around the number is skipped, then comes an optional sign and one or
\* more decimal digits, where a single "_" may stand between two digits;
\* anything else raises ValueError, and so does a number of more than
\* MaxStrDigits digits.  val is the number as str() prints it (Python's
\* integers are unbounded): "-" if it is negative, then its digits.
PyInt(s) ==
    LET t == RStrip(LStrip(s))
        signed == t # <<>> /\ t[1] \in {"+", "-"}
        body == IF signed THEN Tail(t) ELSE t
        wellFormed ==
            /\ body # <<>>
            /\ \A i \in 1..Len(body) :
                   \/ IsDecimal(body[i])
                   \/ /\ body[i] = "_"
                      /\ 1 < i
                      /\ i < Len(body)
                      /\ IsDecimal(body[i - 1])
                      /\ IsDecimal(body[i + 1])
        digits == SelectSeq(body, IsDecimal)
        magnitude == StripZeros([i \in 1..Len(digits) |-> AsciiDigit(digits[i])])
    IN  IF wellFormed /\ Len(digits) <= MaxStrDigits
        THEN [ok |-> TRUE,
              val |-> IF signed /\ t[1] = "-" /\ magnitude # <<"0">>
                      THEN <<"-">> \o magnitude
                      ELSE magnitude]
        ELSE [ok |-> FALSE, val |-> <<>>]

\* The answer of a dependency that did not produce a user.
NoUser(code) ==
    [ok |-> FALSE, code |-> code, user |-> [is_active |-> FALSE, is_superuser |-> FALSE]]

\* db.get(User, key): the primary keys of the rows whose key is the number.
UserKeys(val) == {k \in DOMAIN UserTable : NatToStr(k) = val}

\* get_current_user on a token: 401 for a token jwt.decode rejects, for a
\* payload without sub and for a key with no row.  int(user_id) is
\* evaluated outside the try block: a sub that is no number raises
\* ValueError, which nothing catches, and the request ends as 500.
UserOfToken(token) ==
    IF ~token.signed THEN NoUser(401)
    ELSE IF token.sub = None THEN NoUser(401)
    ELSE LET user_id == PyInt(token.sub[1])
         IN  IF ~user_id.ok THEN NoUser(500)
             ELSE IF UserKeys(user_id.val) = {} THEN NoUser(401)
             ELSE [ok |-> TRUE, code |-> 200,
                   user |-> UserTable[CHOOSE k \in UserKeys(user_id.val) : TRUE]]

\* What get_current_user answers to each caller's token.
CurrentUser == [c \in Callers |-> UserOfToken(Tokens[c])]

\* get_current_user for the token a caller sends.
get_current_user(c) == CurrentUser[c]

\* get_current_active_user: 400 for an inactive user.
get_current_active_user(c) ==
    LET u == get_current_user(c)
    IN  IF ~u.ok THEN u
        ELSE IF ~u.user.is_active THEN [u EXCEPT !.ok = FALSE, !.code = 400]
        ELSE u

\* The update endpoint without its privilege test.
UpdateAllowed_anyone(u) == TRUE

\* The privilege test of the update endpoint: "if not current_user.is_superuser".
UpdateAllowed(u) == u.is_superuser

\* --------------------------------------------------------------- MLService
\* datetime.isoformat() of a clock reading.
IsoFormat(t) == <<"iso", t>>

\* get_status answering with the status the service was constructed with.
get_status_stale ==
    [model_name |-> ModelName,
     version |-> version,
     status |-> "ready",
     last_updated |-> IsoFormat(last_updated),
     metrics |-> Metrics]

\* MLService.get_status
get_status ==
    [model_name |-> ModelName,
     version |-> version,
     status |-> status,
     last_updated |-> IsoFormat(last_updated),
     metrics |-> Metrics]

\* MLService.predict: the two draws become prediction and confidence, the
\* installed version goes into the metadata.  Nothing in it reads status,
\* and nothing in its try block raises.
predict(input_data, sample) ==
    [prediction |-> sample[1],
     confidence |-> sample[2],
     metadata |-> [model_version |-> version]]

\* The Prediction row batch_predict builds for one (input, output) pair.
Prediction(input_data, prediction) ==
    [input_data |-> input_data, output_data |-> prediction, model_version |-> version]

\* The constraint of batch_size written ge=0 instead of gt=0.
BatchSizeValid_ge(batch_size) == batch_size = None \/ batch_size[1] >= 0

\* The gt=0 constraint of BatchPredictionRequest.batch_size.
BatchSizeValid(batch_size) == batch_size = None \/ batch_size[1] > 0

\* The chunks of batch_predict's loop, one per start index of the range.
\* Each chunk is sliced, predicted item by item, added to the session row
\* by row and committed; a commit the database rejects raises, which ends
\* the loop.  acc carries predictions, committed rows, the steps taken and
\* the number of commits so far; failAt is the commit the database
\* rejects (0: none).
\* The except branch without the rollback: the failing chunk's rows stay.
RolledBack_keeps_rows(acc, batch_predictions, rows, steps) ==
    [acc EXCEPT !.ok = FALSE,
                !.predictions = @ \o batch_predictions,
                !.rows = @ \o rows,
                !.events = @ \o steps
                             \o <<<<"commit_failed", Len(rows)>>, <<"rollback", 0>>>>]

\* The except branch of batch_predict when a chunk's commit raises: the
\* session is rolled back, so the chunk's rows are dropped, and the call
\* ends in HTTPException 500.
RolledBack(acc, batch_predictions, rows, steps) ==
    [acc EXCEPT !.ok = FALSE,
                !.predictions = @ \o batch_predictions,
                !.events = @ \o steps
                             \o <<<<"commit_failed", Len(rows)>>, <<"rollback", 0>>>>]

RECURSIVE RunChunks(_, _, _, _, _, _)
RunChunks(starts, inputs, size, samples, failAt, acc) ==
    IF starts = <<>> THEN [acc EXCEPT !.ok = TRUE]
    ELSE
        LET i == Head(starts)
            batch == Slice(inputs, i, i + size)
            batch_predictions ==
                [j \in 1..Len(batch) |-> predict(batch[j], samples[i + j])]
            rows ==
                [j \in 1..Len(batch) |-> Prediction(batch[j], batch_predictions[j])]
            steps == [j \in 1..Len(batch) |-> <<"predict", i + j>>]
                     \o [j \in 1..Len(batch) |-> <<"add", i + j>>]
        IN  IF failAt = acc.commits + 1
            THEN RolledBack(acc, batch_predictions, rows, steps)
            ELSE RunChunks(Tail(starts), inputs, size, samples, failAt,
                           [acc EXCEPT !.predictions = @ \o batch_predictions,
                                       !.rows = @ \o rows,
                                       !.events = @ \o steps \o <<<<"commit", Len(batch)>>>>,
                                       !.commits = @ + 1])

\* MLService.batch_predict on request (inputs, batch_size), with the
\* samples the predictions draw and the commit the database rejects.
\* ok is FALSE when the except branch ran (rollback, HTTPException 500).
batch_predict(inputs, batch_size, samples, failAt) ==
    LET size == OrElse(batch_size, Len(inputs))
        rng == PyRange(0, Len(inputs), size)
        start == [ok |-> TRUE, predictions |-> <<>>, rows |-> <<>>,
                  events |-> <<>>, commits |-> 0]
    IN  IF ~rng.ok
        THEN [start EXCEPT !.ok = FALSE, !.events = <<<<"rollback", 0>>>>]
        ELSE RunChunks(rng.seq, inputs, size, samples, failAt, start)

\* How many chunks batch_predict's loop visits on a request.
NumChunks(inputs, batch_size) ==
    Len(PyRange(0, Len(inputs), OrElse(batch_size, Len(inputs))).seq)

\* update_model with the except branch's "raise HTTPException" left out.
update_model_swallows(now) ==
    LET f == PyFloat(version)
    IN  IF f.ok
        THEN [version |-> FormatF1(AddTenth(f)),
              last_updated |-> now,
              status |-> "ready",
              writes |-> <<<<"version", FormatF1(AddTenth(f))>>,
                           <<"last_updated", now>>,
                           <<"status", "ready">>>>,
              raised |-> FALSE,
              detail |-> <<>>]
        ELSE [version |-> version,
              last_updated |-> last_updated,
              status |-> "error",
              writes |-> <<<<"status", "error">>>>,
              raised |-> FALSE,
              detail |-> <<>>]

\* update_model with the except branch's "self.status = 'error'" left out.
update_model_keeps_status(now) ==
    LET f == PyFloat(version)
    IN  IF f.ok
        THEN [version |-> FormatF1(AddTenth(f)),
              last_updated |-> now,
              status |-> "ready",
              writes |-> <<<<"version", FormatF1(AddTenth(f))>>,
                           <<"last_updated", now>>,
                           <<"status", "ready">>>>,
              raised |-> FALSE,
              detail |-> <<>>]
        ELSE [version |-> version,
              last_updated |-> last_updated,
              status |-> status,
              writes |-> <<<<"raise", "HTTPException">>>>,
              raised |-> TRUE,
              detail |-> <<"Model update failed", "ValueError">>]

\* MLService.update_model at clock reading now: the new ModelState, the
\* assignments to the fields in order, and whether HTTPException 500 is
\* raised.
\* float(self.version) raises ValueError before anything is assigned when
\* the version is not a float literal.
update_model(now) ==
    LET f == PyFloat(version)
    IN  IF f.ok
        THEN [version |-> FormatF1(AddTenth(f)),
              last_updated |-> now,
              status |-> "ready",
              writes |-> <<<<"version", FormatF1(AddTenth(f))>>,
                           <<"last_updated", now>>,
                           <<"status", "ready">>>>,
              raised |-> FALSE,
              detail |-> <<>>]
        ELSE [version |-> version,
              last_updated |-> last_updated,
              status |-> "error",
              writes |-> <<<<"status", "error">>>>,
              raised |-> TRUE,
              detail |-> <<"Model update failed", "ValueError">>]

\* ------------------------------------------------------------------- Init
\* The event loop with handlers running as threads: a handler may start
\* while an update_model call has not returned.
LoopFree_threads == TRUE

\* The event loop can start a handler: no synchronous update_model call
\* is holding it.
LoopFree == running = <<>>

Snapshot == [state |-> ModelState, db |-> db, busy |-> running # <<>>]

Init ==
    /\ version = InitialVersion
    /\ status = "ready"
    /\ last_updated = 0
    /\ clock = 0
    /\ db = <<>>
    /\ inflight = <<>>
    /\ resp = [op |-> "none", caller |-> "none", code |-> 0, req |-> <<>>, body |-> <<>>]
    /\ trace = <<>>
    /\ pre = [state |-> [version |-> InitialVersion, status |-> "ready", last_updated |-> 0],
              db |-> <<>>, busy |-> FALSE]
    /\ seen = <<>>
    /\ running = <<>>
    /\ edge = [before |-> [version |-> InitialVersion, status |-> "ready", last_updated |-> 0],
               after |-> [version |-> InitialVersion, status |-> "ready", last_updated |-> 0],
               outcome |-> "none"]

\* The response of a request refused before its handler runs.
Refused(op, c, code) ==
    [op |-> op, caller |-> c, code |-> code, req |-> <<>>, body |-> <<>>]

\* -------------------------------------------------------------- endpoints
\* POST /predict
Predict(c) ==
    LET auth == get_current_active_user(c)
    IN  /\ LoopFree
        /\ pre' = Snapshot
        /\ IF ~auth.ok
           THEN /\ resp' = Refused("predict", c, auth.code)
                /\ trace' = <<>>
           ELSE \E d \in InputVals, s \in SampleSeqs(1) :
                /\ resp' = [op |-> "predict", caller |-> c, code |-> 200,
                            req |-> ModelInput(d),
                            body |-> predict(ModelInput(d), s[1])]
                /\ trace' = <<<<"predict", 1>>>>
        /\ UNCHANGED <<version, status, last_updated, clock, db, inflight, seen,
                       running, edge>>

\* POST /batch-predict.  The dependencies run first, then the body is
\* validated (422), then the handler calls the service.
BatchPredict(c) ==
    LET auth == get_current_active_user(c)
    IN  /\ LoopFree
        /\ pre' = Snapshot
        /\ IF ~auth.ok
           THEN /\ resp' = Refused("batch", c, auth.code)
                /\ trace' = <<>>
                /\ db' = db
           ELSE \E inputs \in InputSeqs(MaxDb - Len(db)), batch_size \in BatchSizes :
                LET req == [inputs |-> inputs, batch_size |-> batch_size]
                IN  IF ~BatchSizeValid(batch_size)
                    THEN /\ resp' = [op |-> "batch", caller |-> c, code |-> 422,
                                     req |-> req, body |-> <<>>]
                         /\ trace' = <<>>
                         /\ db' = db
                    ELSE \E samples \in SampleSeqs(Len(inputs)),
                            failAt \in 0..NumChunks(inputs, batch_size) :
                         LET r == batch_predict(inputs, batch_size, samples, failAt)
                         IN  /\ resp' = [op |-> "batch", caller |-> c,
                                         code |-> IF r.ok THEN 200 ELSE 500,
                                         req |-> req,
                                         body |-> IF r.ok THEN r.predictions ELSE <<>>]
                             /\ trace' = r.events
                             /\ db' = db \o r.rows
        /\ UNCHANGED <<version, status, last_updated, clock, inflight, seen,
                       running, edge>>

\* GET /status
GetModelStatus(c) ==
    LET auth == get_current_active_user(c)
    IN  /\ LoopFree
        /\ pre' = Snapshot
        /\ trace' = <<>>
        /\ IF ~auth.ok
           THEN /\ resp' = Refused("status", c, auth.code)
                /\ seen' = seen
           ELSE /\ resp' = [op |-> "status", caller |-> c, code |-> 200,
                            req |-> <<>>, body |-> get_status]
                /\ seen' = <<[version |-> get_status.version, status |-> get_status.status]>>
        /\ UNCHANGED <<version, status, last_updated, clock, db, inflight,
                       running, edge>>

\* POST /update, up to "await model_file.read()": the caller is
\* authenticated, a caller who is no superuser gets 403, and the handler
\* is suspended on the read.
UpdateBegin(c) ==
    LET auth == get_current_active_user(c)
    IN  /\ LoopFree
        /\ IF ~auth.ok \/ ~UpdateAllowed(auth.user)
           THEN /\ pre' = Snapshot
                /\ resp' = Refused("update", c, IF ~auth.ok THEN auth.code ELSE 403)
                /\ trace' = <<>>
                /\ UNCHANGED <<version, status, last_updated, clock, db, inflight, seen,
                               running, edge>>
           ELSE /\ Len(inflight) < MaxInflight
                /\ inflight' = Append(inflight, c)
                /\ UNCHANGED <<version, status, last_updated, clock, db, resp, trace, pre,
                               seen, running, edge>>

\* POST /update, from the read's completion to the call of update_model:
\* the upload is written to the temporary file (writeOk: the write
\* succeeds; a failed write becomes a 500), then update_model is entered.
\* The call evaluates float(self.version) and has its assignments ahead;
\* no response is sent yet (code 0).
UpdateFinish(i, writeOk) ==
    LET c == inflight[i]
        rest == SubSeq(inflight, 1, i - 1) \o SubSeq(inflight, i + 1, Len(inflight))
        upd == update_model(clock + 1)
    IN  /\ LoopFree
        /\ clock < MaxClock
        /\ inflight' = rest
        /\ pre' = Snapshot
        /\ trace' = <<>>
        /\ UNCHANGED <<version, status, last_updated, clock, db>>
        /\ IF ~writeOk
           THEN /\ resp' = [op |-> "update", caller |-> c, code |-> 500, req |-> <<>>,
                            body |-> <<"Failed to update model", "OSError">>]
                /\ UNCHANGED <<seen, running, edge>>
           ELSE /\ resp' = [op |-> "update", caller |-> c, code |-> 0, req |-> <<>>,
                            body |-> <<>>]
                /\ seen' = <<>>
                /\ running' = Append(running,
                                     [caller |-> c, steps |-> upd.writes,
                                      writes |-> upd.writes, raised |-> upd.raised,
                                      detail |-> upd.detail])
                /\ edge' = [edge EXCEPT
                                !.before = ModelState,
                                !.after = [version |-> upd.version,
                                           status |-> upd.status,
                                           last_updated |-> upd.last_updated]]

\* The next assignment of the update_model call running[k]; after the
\* last one the call returns or raises and the update endpoint answers:
\* success, or a 500 carrying the service's reason.
UpdateStep(k) ==
    LET call == running[k]
        w == Head(call.steps)
        last == Len(call.steps) = 1
    IN  /\ version' = IF w[1] = "version" THEN w[2] ELSE version
        /\ last_updated' = IF w[1] = "last_updated" THEN w[2] ELSE last_updated
        /\ clock' = IF w[1] = "last_updated" THEN w[2] ELSE clock
        /\ status' = IF w[1] = "status" THEN w[2] ELSE status
        /\ UNCHANGED <<db, inflight, pre, seen>>
        /\ IF last
           THEN /\ running' = SubSeq(running, 1, k - 1) \o SubSeq(running, k + 1, Len(running))
                /\ edge' = [edge EXCEPT !.outcome = IF call.raised THEN "failed" ELSE "ok"]
                /\ trace' = call.writes
                /\ resp' = [op |-> "update", caller |-> call.caller,
                            code |-> IF call.raised THEN 500 ELSE 200, req |-> <<>>,
                            body |-> IF call.raised
                                     THEN <<"Failed to update model">> \o call.detail
                                     ELSE <<"success", "Model updated successfully">>]
           ELSE /\ running' = [running EXCEPT ![k].steps = Tail(@)]
                /\ UNCHANGED <<edge, trace, resp>>

Next ==
    \/ \E c \in Callers : Predict(c)
    \/ \E c \in Callers : BatchPredict(c)
    \/ \E c \in Callers : GetModelStatus(c)
    \/ \E c \in Callers : UpdateBegin(c)
    \/ \E i \in 1..Len(inflight), writeOk \in BOOLEAN : UpdateFinish(i, writeOk)
    \/ \E k \in 1..Len(running) : UpdateStep(k)

Spec == Init /\ [][Next]_vars

\* ----------------------------------------------------------------- claims
\* The last request got past its dependencies and validation: its handler ran.
HandlerRan(op) ==
    /\ resp.op = op
    /\ get_current_active_user(resp.caller).ok
    /\ resp.code \notin {403, 422}

\* The last request was an update whose handler called update_model.
UpdateCalled == resp.op = "update" /\ trace # <<>>

\* C1: whenever status is not "ready", a predict call fails and returns no
\* output.
C1_PredictRefusedUnlessReady ==
    (HandlerRan("predict") /\ pre.state.status # "ready")
        => (resp.code # 200 /\ resp.body = <<>>)

\* C2: an update_model call ends with status "ready" and a version that
\* differs from (is one increment above) the version before the call.
C2_UpdateBumpsVersion ==
    UpdateCalled
        => /\ status = "ready"
           /\ resp.code = 200
           /\ PyFloat(version).ok
           /\ version # pre.state.version

\* C3: when update_model fails (float() rejects the installed version), the
\* call ends with status "error", version and last_updated as before, and
\* the endpoint answers 500 with the failure reason; an update the endpoint
\* reports as success has installed a new version and left status "ready".
C3_FailedUpdateReported ==
    /\ (UpdateCalled /\ ~PyFloat(pre.state.version).ok)
           => /\ status = "error"
              /\ version = pre.state.version
              /\ last_updated = pre.state.last_updated
              /\ resp.code = 500
              /\ resp.body = <<"Failed to update model", "Model update failed", "ValueError">>
    /\ (resp.op = "update" /\ resp.code = 200)
           => /\ UpdateCalled
              /\ status = "ready"
              /\ version # pre.state.version

\* C3 witness: an update_model call has failed from status "ready".
C3_Witness ==
    /\ UpdateCalled
    /\ pre.state.status = "ready"
    /\ status = "error"
    /\ resp.code = 500

\* C4: every update_model call first sets status to "updating".
C4_UpdatingFirst ==
    UpdateCalled => trace[1] = <<"status", "updating">>

\* The chunking the specification describes for N inputs and chunk size k,
\* in closed form: ceil(N/k) chunks, chunk c holding inputs
\* (c-1)k+1 .. min(ck, N).
ChunkCount(N, k) == IF N = 0 THEN 0 ELSE (N + k - 1) \div k

ChunkSize(c, N, k) == Min(c * k, N) - (c - 1) * k

\* What processing chunk c does before its commit: a prediction per input
\* of the chunk, then a row per input, both in input order.
ChunkSteps(c, N, k) ==
    [j \in 1..ChunkSize(c, N, k) |-> <<"predict", (c - 1) * k + j>>]
    \o [j \in 1..ChunkSize(c, N, k) |-> <<"add", (c - 1) * k + j>>]

\* The steps of chunks 1..c, each committed before the next one starts.
RECURSIVE CommittedSteps(_, _, _)
CommittedSteps(c, N, k) ==
    IF c = 0 THEN <<>>
    ELSE CommittedSteps(c - 1, N, k) \o ChunkSteps(c, N, k)
         \o <<<<"commit", ChunkSize(c, N, k)>>>>

\* The chunk size a request asks for: batch_size, or all inputs when absent.
AskedSize(req) ==
    IF req.batch_size = None THEN Len(req.inputs) ELSE req.batch_size[1]

\* How many commits of the last service call succeeded.
CommitsDone == Cardinality({i \in 1..Len(trace) : trace[i][1] = "commit"})

\* C5: for every valid batch request, with the model ready and every commit
\* accepted, the response holds one prediction per input, the i-th being
\* the one made (and stored) for the i-th input.
C5_BatchAnswersEveryInput ==
    (/\ HandlerRan("batch")
     /\ pre.state.status = "ready"
     /\ \A i \in 1..Len(trace) : trace[i][1] # "commit_failed")
        => /\ resp.code = 200
           /\ Len(resp.body) = Len(resp.req.inputs)
           /\ \A i \in 1..Len(resp.req.inputs) :
                  db[Len(pre.db) + i] = [input_data |-> resp.req.inputs[i],
                                         output_data |-> resp.body[i],
                                         model_version |-> version]

\* C6: a successful batch_predict on N inputs with chunk size k has worked
\* through ceil(N/k) contiguous chunks in input order, predicting a chunk's
\* inputs, adding one row per (input, output) pair and committing once
\* before the next chunk starts; the table has grown by exactly these rows.
C6_ChunksAndCommits ==
    (resp.op = "batch" /\ resp.code = 200)
        => LET N == Len(resp.req.inputs)
               k == AskedSize(resp.req)
           IN  /\ trace = CommittedSteps(ChunkCount(N, k), N, k)
               /\ CommitsDone = ChunkCount(N, k)
               /\ Len(resp.body) = N
               /\ db = pre.db \o [i \in 1..N |->
                                     [input_data |-> resp.req.inputs[i],
                                      output_data |-> resp.body[i],
                                      model_version |-> version]]

\* C6 witness: three inputs with batch_size 2 went through as chunks of 2
\* and 1, with two commits.
C6_Witness ==
    /\ resp.op = "batch"
    /\ resp.code = 200
    /\ Len(resp.req.inputs) = 3
    /\ resp.req.batch_size = Some(2)
    /\ CommitsDone = 2
    /\ trace[5] = <<"commit", 2>>
    /\ trace[8] = <<"commit", 1>>
    /\ Len(db) = Len(pre.db) + 3

\* C7: when batch_predict fails on chunk i of a non-empty batch, the chunks
\* before i were processed and committed, chunk i was predicted and added
\* but its commit failed and was rolled back, nothing of a later chunk was
\* predicted or stored, the table has grown by exactly the rows of the
\* chunks before i, and the caller gets a 500 without predictions.
C7_PartialFailure ==
    (HandlerRan("batch") /\ resp.code = 500 /\ Len(resp.req.inputs) > 0)
        => LET N == Len(resp.req.inputs)
               k == AskedSize(resp.req)
               i == CommitsDone + 1
               kept == Min(CommitsDone * k, N)
           IN  /\ i <= ChunkCount(N, k)
               /\ trace = CommittedSteps(i - 1, N, k) \o ChunkSteps(i, N, k)
                          \o <<<<"commit_failed", ChunkSize(i, N, k)>>, <<"rollback", 0>>>>
               /\ Len(db) = Len(pre.db) + kept
               /\ SubSeq(db, 1, Len(pre.db)) = pre.db
               /\ \A j \in 1..kept :
                      /\ db[Len(pre.db) + j].input_data = resp.req.inputs[j]
                      /\ db[Len(pre.db) + j].model_version = version
               /\ resp.body = <<>>

\* C7 witness: a batch of three inputs in chunks of one failed on its
\* second chunk, leaving the first chunk's row committed.
C7_Witness ==
    /\ HandlerRan("batch")
    /\ resp.code = 500
    /\ Len(resp.req.inputs) = 3
    /\ resp.req.batch_size = Some(1)
    /\ CommitsDone = 1
    /\ Len(db) = Len(pre.db) + 1

\* C8: a status response stays the answer of every later status query until
\* update_model is called, whatever predict and batch requests run in
\* between, and a status query answers with the installed version and
\* status and leaves ModelState as it was.
C8_StatusIdempotent ==
    /\ Len(seen) = 1 => seen[1] = [version |-> version, status |-> status]
    /\ (resp.op = "status" /\ resp.code = 200)
           => /\ resp.body.version = version
              /\ resp.body.status = status
              /\ ModelState = pre.state
              /\ db = pre.db

\* C8 witness: after a failed update and a status query, a batch request
\* stored rows, and the status response is still current.
C8_Witness ==
    /\ Len(seen) = 1
    /\ seen[1].status = "error"
    /\ resp.op = "batch"
    /\ resp.code = 200
    /\ Len(db) > Len(pre.db)

\* C9: a batch request of an active user whose batch_size is present and <= 0 is rejected
\* with 422 before any processing: no prediction, no row added, no commit,
\* table and ModelState unchanged.
C9_BadBatchSizeRejected ==
    (/\ resp.op = "batch"
     /\ get_current_active_user(resp.caller).ok
     /\ resp.req.batch_size # None
     /\ resp.req.batch_size[1] <= 0)
        => /\ resp.code = 422
           /\ resp.body = <<>>
           /\ trace = <<>>
           /\ db = pre.db
           /\ ModelState = pre.state

\* C9 witness: a batch of three inputs with batch_size 0 was rejected.
C9_Witness ==
    /\ resp.op = "batch"
    /\ resp.code = 422
    /\ Len(resp.req.inputs) = 3
    /\ resp.req.batch_size = Some(0)

\* An authorized caller without the elevated flag: an active user who is
\* no superuser.
PlainCaller(c) ==
    /\ get_current_active_user(c).ok
    /\ ~get_current_active_user(c).user.is_superuser

\* C10 as stated: an update or a status query by an authorized caller
\* without the elevated flag is rejected, returns no data and leaves
\* ModelState unchanged.
C10_ElevatedForUpdateAndStatus ==
    (resp.op \in {"update", "status"} /\ PlainCaller(resp.caller))
        => /\ resp.code # 200
           /\ resp.body = <<>>
           /\ ModelState = pre.state

\* C10 amended: an update by an authorized caller without the elevated
\* flag is rejected with 403, returns no data, calls nothing and leaves
\* ModelState unchanged, and only active superusers have an update
\* request in progress; status, predict and batch requests of such a caller
\* are not refused for lack of privilege.
C10_ElevatedForUpdateOnly ==
    /\ (resp.op = "update" /\ PlainCaller(resp.caller))
           => /\ resp.code = 403
              /\ resp.body = <<>>
              /\ trace = <<>>
              /\ ModelState = pre.state
    /\ \A i \in 1..Len(inflight) :
           /\ get_current_active_user(inflight[i]).ok
           /\ get_current_active_user(inflight[i]).user.is_superuser
    /\ (resp.op \in {"status", "predict", "batch"} /\ PlainCaller(resp.caller))
           => resp.code \notin {400, 401, 403}

\* C10 witness: a plain user's update was rejected with 403 while a
\* superuser's update request was in progress.
C10_Witness ==
    /\ resp.op = "update"
    /\ resp.caller = "alice"
    /\ resp.code = 403
    /\ Len(inflight) > 0

\* The (version, last_updated, status) triple a status response shows for
\* ModelState m.
Shown(m) ==
    [version |-> m.version, last_updated |-> IsoFormat(m.last_updated), status |-> m.status]

\* The last request was a read of ModelState that was answered.
ReaderAnswered == resp.op \in {"status", "predict", "batch"} /\ resp.code = 200

\* C11: a status query or prediction concurrent with updates observes
\* ModelState as some update_model call found it or left it, never a mix:
\* the triple of a status response is the state before or after the last
\* call entered, a prediction carries the version of one of the two, and
\* no reader runs between the entry and the return of an update_model
\* call.
C11_NoTornRead ==
    /\ (resp.op = "status" /\ resp.code = 200)
           => [version |-> resp.body.version,
               last_updated |-> resp.body.last_updated,
               status |-> resp.body.status] \in {Shown(edge.before), Shown(edge.after)}
    /\ (resp.op = "predict" /\ resp.code = 200)
           => resp.body.metadata.model_version \in {edge.before.version, edge.after.version}
    /\ ReaderAnswered => ~pre.busy
    /\ running = <<>> => ModelState = edge.after

\* C11 witness: while another update request is suspended on its read, a
\* status query shows the whole state left by an update that failed.
C11_Witness ==
    /\ resp.op = "status"
    /\ resp.code = 200
    /\ Len(inflight) > 0
    /\ edge.before.status = "ready"
    /\ edge.after.status = "error"
    /\ resp.body.status = "error"
    /\ resp.body.version = edge.after.version

\* ModelState m after the assignments ws, in order.
RECURSIVE AfterWrites(_, _)
AfterWrites(m, ws) ==
    IF ws = <<>> THEN m
    ELSE AfterWrites(
             [version |-> IF Head(ws)[1] = "version" THEN Head(ws)[2] ELSE m.version,
              status |-> IF Head(ws)[1] = "status" THEN Head(ws)[2] ELSE m.status,
              last_updated |-> IF Head(ws)[1] = "last_updated" THEN Head(ws)[2]
                               ELSE m.last_updated],
             Tail(ws))

\* The assignments an update_model call in progress has made so far.
WritesDone(call) == SubSeq(call.writes, 1, Len(call.writes) - Len(call.steps))

\* C12: updates are serialized.  At most one update_model call is in
\* progress; while it is, ModelState is the state the call read changed by
\* the call's own assignments so far and by nothing else; once it has
\* returned, ModelState is what the call computed from the state it read,
\* and a call that succeeded left the version it read plus one increment.
C12_UpdatesSerialized ==
    /\ Len(running) <= 1
    /\ \A k \in 1..Len(running) :
           ModelState = AfterWrites(edge.before, WritesDone(running[k]))
    /\ running = <<>> =>
           /\ version = edge.after.version
           /\ edge.outcome = "ok" =>
                  /\ PyFloat(edge.before.version).ok
                  /\ version = FormatF1(AddTenth(PyFloat(edge.before.version)))

\* C12 witness: two update requests were suspended on their reads at the
\* same time; one has entered update_model, the other is still waiting.
C12_Witness ==
    /\ Len(running) = 1
    /\ Len(inflight) = 1
    /\ running[1].caller = "admin"
    /\ resp.op = "update"
    /\ resp.code = 0

\* C13: status is "error" only when the last update_model call to return
\* failed (it is "ready" initially and after a call that succeeded), and a
\* predict, batch_predict or status handler, whatever it answers, leaves
\* version, status and last_updated as it found them.
C13_ErrorOnlyAfterFailedUpdate ==
    /\ status \in {"ready", "error"}
    /\ status = "error" => edge.outcome = "failed"
    /\ edge.outcome \in {"none", "ok"} => status = "ready"
    /\ resp.op \in {"predict", "batch", "status"} => ModelState = pre.state

\* C13 witness: after a failed update a batch request fails and a state in
\* which status is still "error", with the rest of ModelState untouched.
C13_Witness ==
    /\ status = "error"
    /\ edge.outcome = "failed"
    /\ HandlerRan("batch")
    /\ resp.code = 500
    /\ pre.state.status = "error"
    /\ version = InitialVersion

====
